---- MODULE Spec2Model ----
(***************************************************************************)
(* A model of BaseAI (src/src/ai/base.ts): the completion / chat / embed   *)
(* request pipeline with the process-wide response cache, the optional     *)
(* rate limiter, the streaming transform and the trace recorder.           *)
(*                                                                         *)
(* Each call of completion(), chat() or embed() is a small process whose   *)
(* position (pc) moves from one await of the code to the next.             *)
(* Collaborators whose code is not part of src/ (MemoryCache, hashObject,  *)
(* convertToChatRequest, convertToCompletionRequest, mergeTextResponses,   *)
(* parseAndAddFunction, RespTransformStream, apiCall, RemoteLogger, the    *)
(* trace builders) are modelled from the specification's description.      *)
(***************************************************************************)
EXTENDS Integers, Sequences, FiniteSets, TLC

VARIABLES
    cache,      \* the module-level MemoryCache: key -> entry
    now,        \* the wall clock (new Date().getTime())
    ai,         \* the BaseAI instances: hooks, options, trace builders
    calls,      \* the calls of completion / chat / embed, by call id
    remoteLog,  \* the trace steps the remote telemetry sink accepted
    observed    \* the trace steps handed to the local observer (options.log)

vars == <<cache, now, ai, calls, remoteLog, observed>>

(***************************************************************************)
(* Bounds of the model.                                                    *)
(***************************************************************************)
MaxDeltas == 2      \* native deltas one stream delivers at most
MaxTicks == 2       \* times the clock advances
MaxDepth == 2       \* nested completion <-> chat redirections followed

Calls == {1, 2}
AIs == {"ai1", "ai2"}
Prompts == {"p1", "p2"}
Chunks == {"x", "call"}

Undef == "undefined"
T == "true"
F == "false"

(***************************************************************************)
(* options.cacheMaxAgeSeconds ?? 3600                                      *)
(***************************************************************************)
DefaultMaxAge == 3600

HookNames ==
    {"generateCompletionReq", "generateChatReq", "generateEmbedReq",
     "generateCompletionResp", "generateCompletionStreamResp",
     "generateChatResp", "generateChatStreamResp", "generateEmbedResp"}

(***************************************************************************)
(* Small helpers on sequences.                                             *)
(***************************************************************************)
RECURSIVE Flatten(_)
Flatten(ss) == IF ss = <<>> THEN <<>> ELSE Head(ss) \o Flatten(Tail(ss))

Count(s, e) == Cardinality({i \in DOMAIN s : s[i] = e})

IndexOf(s, e) == IF \E i \in DOMAIN s : s[i] = e
                 THEN CHOOSE i \in DOMAIN s : s[i] = e /\ \A j \in 1..(i - 1) : s[j] # e
                 ELSE 0

(***************************************************************************)
(* Unified requests.  A completion request holds a prompt, a chat request  *)
(* a list of turns; both hold the function declarations and modelConfig.   *)
(***************************************************************************)
CompletionRequest(p, fns, st) ==
    [kind |-> "completion", prompt |-> p, functions |-> fns,
     modelConfig |-> [stream |-> st]]

ChatRequest(turns, fns, st) ==
    [kind |-> "chat", chatPrompt |-> turns, functions |-> fns,
     modelConfig |-> [stream |-> st]]

EmbedRequest(p) == [kind |-> "embed", texts |-> <<p>>]

convertToChatRequest(req) ==
    ChatRequest(<<[role |-> "user", text |-> req.prompt]>>,
                req.functions, req.modelConfig.stream)

convertToCompletionRequest(req) ==
    CompletionRequest(req.chatPrompt[Len(req.chatPrompt)].text,
                      req.functions, req.modelConfig.stream)

hashObject(req) == <<"hash", req>>

(***************************************************************************)
(* MemoryCache<TextResponse>: get(key) returns the stored value if present *)
(* and not expired, else signals absence and drops the expired entry;      *)
(* set(key, value, ttlSeconds) stores it with expiresAt = now + ttl.       *)
(* writtenAt, by and inst record the write for the properties below.       *)
(***************************************************************************)
CacheLive(ch, key, t) == key \in DOMAIN ch /\ t <= ch[key].expiresAt

CacheGet(ch, key, t) ==
    IF CacheLive(ch, key, t)
    THEN [found |-> TRUE, entry |-> {ch[key]}]
    ELSE [found |-> FALSE, entry |-> {}]

CacheAfterGet(ch, key, t) ==
    IF key \in DOMAIN ch /\ ~CacheLive(ch, key, t)
    THEN [k \in DOMAIN ch \ {key} |-> ch[k]]
    ELSE ch

\* Variant: set keeps the entry a key already has.
CacheSetKeepingFirst(ch, key, value, ttl, t, c, a) ==
    ch @@ (key :> [value |-> value, expiresAt |-> t + ttl, writtenAt |-> t,
                   by |-> c, inst |-> a])

CacheSet(ch, key, value, ttl, t, c, a) ==
    (key :> [value |-> value, expiresAt |-> t + ttl, writtenAt |-> t,
             by |-> c, inst |-> a]) @@ ch

(***************************************************************************)
(* Per-call options (AIPromptConfig & AIServiceActionOptions).  An absent  *)
(* cacheMaxAgeSeconds is the empty set, a given one the singleton.         *)
(***************************************************************************)
Options(useCache, maxAge, st, sid, tid) ==
    [cache |-> useCache, cacheMaxAgeSeconds |-> maxAge, stream |-> st,
     sessionId |-> sid, traceId |-> tid]

\* Variant: the time to live the caller asked for is ignored.
CacheMaxAgeIgnoringOption(o) == DefaultMaxAge

CacheMaxAge(o) ==
    IF o.cacheMaxAgeSeconds = {} THEN DefaultMaxAge
    ELSE CHOOSE n \in o.cacheMaxAgeSeconds : TRUE

\* options.stream ?? _req.modelConfig?.stream
ResolveStream(o, req) == IF o.stream # Undef THEN o.stream ELSE req.modelConfig.stream

(***************************************************************************)
(* The adapter's hooks.  A request hook returns [API, native request]; a   *)
(* response hook converts a native response (or one native delta) to a     *)
(* TextResponse.                                                           *)
(***************************************************************************)
PerCallHeaders(name) == ("X-Api" :> name) @@ ("Authorization" :> "per-call")

generateReq(name, req, o) ==
    [apiConfig |-> [name |-> name, headers |-> PerCallHeaders(name)],
     reqValue |-> [native |-> req, stop |-> "stopSequences"]]

TextResponse(text, usage) ==
    [results |-> <<[text |-> text]>>, modelUsage |-> usage,
     sessionId |-> Undef, functions |-> <<>>]

generateResp(rv) == TextResponse(<<rv.text>>, rv.usage)

generateStreamResp(delta) == TextResponse(<<delta.text>>, delta.usage)

generateEmbedResp(rv) ==
    [texts |-> <<rv.text>>, embedding |-> <<1>>, modelUsage |-> rv.usage,
     sessionId |-> Undef]

(***************************************************************************)
(* mergeTextResponses: the texts concatenated in arrival order, the usage  *)
(* counters summed; the aggregate carries the deltas' session id.          *)
(***************************************************************************)
RECURSIVE SumUsage(_)
SumUsage(values) ==
    IF values = <<>> THEN 0 ELSE Head(values).modelUsage + SumUsage(Tail(values))

mergeTextResponses(values) ==
    [results |-> <<[text |-> Flatten([i \in DOMAIN values |-> values[i].results[1].text])]>>,
     modelUsage |-> SumUsage(values),
     sessionId |-> IF values = <<>> THEN Undef ELSE values[Len(values)].sessionId,
     functions |-> <<>>]

(***************************************************************************)
(* parseAndAddFunction: a function-call marker in the text of a result     *)
(* runs the declared function and attaches its record to the result.       *)
(***************************************************************************)
HasMarker(res) == \E i \in DOMAIN res.results[1].text : res.results[1].text[i] = "call"

parseAndAddFunction(res) ==
    IF HasMarker(res)
    THEN [res EXCEPT !.functions = <<[name |-> "fn", result |-> "ok"]>>]
    ELSE res

\* if (req.functions) { parseAndAddFunction(req.functions, res) }
WithFunctions(req, res) == IF req.functions THEN parseAndAddFunction(res) ELSE res

\* Variant: the spread order exchanged, { ...this.headers, ...headers }.
buildHeadersPerCallLast(static, headers) == headers @@ static

\* { ...headers, ...this.headers }
buildHeaders(static, headers) == static @@ headers

(***************************************************************************)
(* The head of completion() and chat(): the cache lookup, the redirection  *)
(* to the sibling capability and the checks of the hooks, down to the      *)
(* point where the request is built.  hooks are the instance's hooks, ch   *)
(* the cache, t the time, depth the redirections taken so far.  The result *)
(* says how the head ended: "hit" (a cached value is returned), "error"    *)
(* (a hook is missing), "go" (fn dispatches req) or "loop" (the            *)
(* redirections did not end within MaxDepth).                              *)
(***************************************************************************)
RouteEnd(outcome, fn, req, o, ch, depth, entry, error) ==
    [outcome |-> outcome, fn |-> fn, req |-> req,
     hashKey |-> IF o.cache THEN {hashObject(req)} ELSE {},
     cache |-> ch, redirects |-> depth, entry |-> entry, error |-> error]

\* if (!this.generateCompletionReq && this.generateChatReq) return this.chat(...)
CompletionRedirects(hooks) ==
    "generateCompletionReq" \notin hooks /\ "generateChatReq" \in hooks

\* if (!this.generateChatReq && this.generateCompletionReq) return this.completion(...)
ChatRedirects(hooks) ==
    "generateChatReq" \notin hooks /\ "generateCompletionReq" \in hooks

RECURSIVE Route(_, _, _, _, _, _, _)
Route(fn, hooks, req, o, ch, t, depth) ==
    LET key == hashObject(req)
        got == IF o.cache THEN CacheGet(ch, key, t) ELSE [found |-> FALSE, entry |-> {}]
        ch2 == IF o.cache THEN CacheAfterGet(ch, key, t) ELSE ch
        End(outcome, error) == RouteEnd(outcome, fn, req, o, ch2, depth, got.entry, error)
    IN  IF got.found THEN End("hit", "")
        ELSE IF fn = "completion" THEN
            IF CompletionRedirects(hooks) THEN
                IF depth >= MaxDepth THEN End("loop", "")
                ELSE Route("chat", hooks, convertToChatRequest(req), o, ch2, t, depth + 1)
            ELSE IF "generateCompletionReq" \notin hooks
                THEN End("error", "generateCompletionReq not implemented")
            ELSE IF "generateCompletionResp" \notin hooks
                THEN End("error", "generateCompletionResp not implemented")
            ELSE End("go", "")
        ELSE
            IF ChatRedirects(hooks) THEN
                IF depth >= MaxDepth THEN End("loop", "")
                ELSE Route("completion", hooks, convertToCompletionRequest(req), o, ch2, t, depth + 1)
            ELSE IF "generateChatReq" \notin hooks
                THEN End("error", "generateChatReq not implemented")
            ELSE End("go", "")

(***************************************************************************)
(* The trace builders of an instance.                                      *)
(***************************************************************************)
NoBuilder == [set |-> FALSE]

\* setStep: new AITextTraceStepBuilder().setTraceId(..).setSessionId(..)
setStep(o, c) ==
    [set |-> TRUE, traceId |-> o.traceId, sessionId |-> o.sessionId, of |-> c]

\* new TextRequestBuilder().setCompletionStep / setChatStep / setEmbedStep
RequestBuilder(step, req, c) == [set |-> TRUE, step |-> step, req |-> req, of |-> c]

\* new TextResponseBuilder().setResults(..).setModelUsage(..).setModelResponseTime(..)
ResponseBuilder(results, usage, time, c) ==
    [set |-> TRUE, results |-> results, modelUsage |-> usage,
     modelResponseTime |-> time, of |-> c]

\* traceStepBuilder.setRequest(..).setResponse(..).build()
BuildTraceStep(inst) ==
    [traceId |-> inst.traceStepBuilder.traceId,
     sessionId |-> inst.traceStepBuilder.sessionId,
     stepOf |-> inst.traceStepBuilder.of,
     request |-> inst.traceStepReqBuilder,
     response |-> inst.traceStepRespBuilder]

traceExists(inst) ==
    inst.traceStepBuilder.set /\ inst.traceStepReqBuilder.set /\ inst.traceStepRespBuilder.set

(***************************************************************************)
(* Calls.  An optional value is the empty set or a singleton.              *)
(***************************************************************************)
The(s) == CHOOSE x \in s : TRUE

IdleCall ==
    [pc |-> "idle", ai |-> Undef, api |-> Undef, fn |-> Undef, redirects |-> 0,
     orig |-> {}, req |-> {}, opts |-> {}, hashKey |-> {}, stream |-> Undef,
     startedAt |-> 0, startTime |-> 0, endedAt |-> 0, descriptors |-> <<>>, events |-> <<>>,
     deltas |-> <<>>, forwarded |-> <<>>, values |-> <<>>,
     returned |-> {}, final |-> {}, hit |-> {}, error |-> ""]

\* if (cached) { return cached }
\* Variant: a cached value is stamped with the session of the call it serves.
HitCallRestamped(call, entry) ==
    [call EXCEPT !.pc = "done", !.hit = {entry},
                 !.final = {[entry.value EXCEPT !.sessionId = The(call.opts).sessionId]},
                 !.returned = {[kind |-> "value",
                                value |-> [entry.value EXCEPT
                                              !.sessionId = The(call.opts).sessionId]]}]

HitCall(call, entry) ==
    [call EXCEPT !.pc = "done", !.hit = {entry}, !.final = {entry.value},
                 !.returned = {[kind |-> "value", value |-> entry.value]}]

Terminal(call) == call.pc \in {"done", "failed", "aborted"}

Truthy(st) == st = T

(***************************************************************************)
(* apiCall (the transport).  The descriptor of chat() carries the stream   *)
(* flag, the one of completion() and embed() does not.  The transport      *)
(* answers with a native stream when the descriptor asks for one; when     *)
(* only the request body asks for one, either answer can come back.        *)
(***************************************************************************)
Descriptor(call, inst) ==
    LET api == generateReq(call.fn, The(call.req), The(call.opts)).apiConfig
        base == [name |-> api.name, url |-> inst.apiURL,
                 headers |-> buildHeaders(inst.headers, api.headers)]
    IN  IF call.fn = "chat"
        THEN [name |-> base.name, url |-> base.url, headers |-> base.headers,
              stream |-> call.stream]
        ELSE base

DescriptorStream(d) == IF "stream" \in DOMAIN d THEN d.stream ELSE Undef

ApiCallKinds(call) ==
    LET d == call.descriptors[Len(call.descriptors)]
    IN  IF Truthy(DescriptorStream(d)) THEN {"stream"}
        ELSE IF call.fn # "embed" /\ Truthy(call.stream) THEN {"stream", "response"}
        ELSE {"response"}

\* fn(): startTime = new Date().getTime(); reqFn(req, options); apiCall(...)
RunThunk(call, inst, t) ==
    [call EXCEPT !.pc = "dispatched",
                 !.startTime = t,
                 !.descriptors = Append(@, Descriptor(call, inst)),
                 !.events = Append(@, "dispatch")]

\* Variant: the thunk is run directly although a rate limiter is configured.
SubmitDirectly(call, inst, t) == RunThunk(call, inst, t)

\* const rv = this.rt ? await this.rt(fn) : await fn()
Submit(call, inst, t) ==
    IF inst.rt
    THEN [call EXCEPT !.pc = "limiter", !.events = Append(@, "limiter")]
    ELSE RunThunk(call, inst, t)

(***************************************************************************)
(* setStepTextResponse(res, startTime) followed by logTrace(): the         *)
(* response builder is replaced, and unless logging is disabled the step   *)
(* is built and handed to the remote sink, which accepts it (sinkOk) or    *)
(* rejects, and then to the local observer.                                *)
(***************************************************************************)
WithResponse(inst, res, startTime, t, c) ==
    [inst EXCEPT !.traceStepRespBuilder =
        ResponseBuilder(res.results, res.modelUsage, t - startTime, c)]

\* Variant: the disableLog flag is not read.
LoggedAlways(inst) == TRUE

\* Variant: the disableLog flag read the wrong way round.
LoggedWhenDisabled(inst) == inst.disableLog

Logged(inst) == ~inst.disableLog

TraceEvents(inst, sinkOk) ==
    IF ~Logged(inst) THEN <<>>
    ELSE IF ~sinkOk THEN <<"traceRejected">>
    ELSE IF inst.log THEN <<"trace", "observe">>
    ELSE <<"trace">>

FunctionEvents(call) == IF The(call.req).functions THEN <<"func">> ELSE <<>>

\* Variant: the test on the key negated.
StoresWithoutKey(o, hashKey) == o.cache /\ hashKey = {}

\* if (options.cache && hashKey) cache.set(hashKey, res, options.cacheMaxAgeSeconds ?? 3600)
Stores(o, hashKey) == o.cache /\ hashKey # {}

StoreEvents(call) ==
    IF Stores(The(call.opts), call.hashKey) THEN <<"cacheSet">> ELSE <<>>

\* Variant: the cache write moved ahead of the function invocation.
SettleEventsStoreFirst(call, inst, sinkOk) ==
    (IF Logged(inst) /\ ~sinkOk THEN <<>> ELSE StoreEvents(call))
    \o FunctionEvents(call) \o TraceEvents(inst, sinkOk)

\* The order of doneCb and of the non-streaming tail: functions, trace, cache.
SettleEvents(call, inst, sinkOk) ==
    FunctionEvents(call) \o TraceEvents(inst, sinkOk)
    \o (IF Logged(inst) /\ ~sinkOk THEN <<>> ELSE StoreEvents(call))

(***************************************************************************)
(* The tail shared by the non-streaming path and by doneCb: function       *)
(* invocation, trace recording, cache write.  res is the converted (or     *)
(* merged) result, startArg the second argument of setStepTextResponse,    *)
(* stamp says whether res.sessionId is set before the cache write, pre     *)
(* are the events that precede the tail.                                   *)
(***************************************************************************)
Settle(c, res0, startArg, stamp, pre, sinkOk) ==
    LET call == calls[c]
        a == call.ai
        o == The(call.opts)
        res1 == WithFunctions(The(call.req), res0)
        inst == WithResponse(ai[a], res1, startArg, now, c)
        step == [by |-> c, step |-> BuildTraceStep(inst)]
        threw == Logged(inst) /\ ~sinkOk
        res2 == IF stamp THEN [res1 EXCEPT !.sessionId = o.sessionId] ELSE res1
        stored == ~threw /\ Stores(o, call.hashKey)
        ev == pre \o SettleEvents(call, inst, sinkOk)
    IN  /\ ai' = [ai EXCEPT ![a] = inst]
        /\ remoteLog' = IF Logged(inst) /\ sinkOk THEN Append(remoteLog, step) ELSE remoteLog
        /\ observed' = IF Logged(inst) /\ sinkOk /\ inst.log THEN Append(observed, step)
                       ELSE observed
        /\ cache' = IF stored
                    THEN CacheSet(cache, The(call.hashKey), res2, CacheMaxAge(o), now, c, a)
                    ELSE cache
        /\ calls' = [calls EXCEPT ![c] =
                [call EXCEPT !.pc = IF threw THEN "failed" ELSE "done",
                             !.events = @ \o ev,
                             !.endedAt = now,
                             !.final = IF threw THEN {} ELSE {res2},
                             !.returned = IF threw \/ ~stamp THEN @
                                          ELSE {[kind |-> "value", value |-> res2]},
                             !.error = IF threw THEN "trace delivery failed" ELSE @]]

(***************************************************************************)
(* Actions.                                                                *)
(***************************************************************************)
\* Time passes, by a second or by the default maximum age of a cache entry.
TicksTaken(t) == (t % DefaultMaxAge) + (t \div DefaultMaxAge)

Tick(d) ==
    /\ TicksTaken(now) < MaxTicks
    /\ now' = now + d
    /\ UNCHANGED <<cache, ai, calls, remoteLog, observed>>

\* The calls are made one after the other, call 1 first.
InSequence(c) ==
    /\ calls[c].pc = "idle"
    /\ \A d \in Calls \ {c} : Terminal(calls[d]) \/ (calls[d].pc = "idle" /\ c < d)

Begin(c, a, req, o) ==
    [IdleCall EXCEPT !.ai = a, !.api = req.kind, !.fn = req.kind,
                     !.orig = {req}, !.opts = {o}, !.startedAt = now]

(***************************************************************************)
(* completion(_req, options) and chat(_req, options) up to the first await *)
(* of the dispatch: cache lookup, redirection, hook checks, setStep, the   *)
(* request builder, and the hand-over to the rate limiter or the thunk.    *)
(***************************************************************************)
CallText(c, a, req, o) ==
    LET r == Route(req.kind, ai[a].hooks, req, o, cache, now, 0)
        call == [Begin(c, a, req, o) EXCEPT !.fn = r.fn, !.redirects = r.redirects,
                                            !.hashKey = r.hashKey]
        stream == ResolveStream(o, r.req)
        req2 == [r.req EXCEPT !.modelConfig = [stream |-> stream]]
        go == [call EXCEPT !.req = {req2}, !.stream = stream]
        inst == [ai[a] EXCEPT !.traceStepBuilder = setStep(o, c),
                              !.traceStepReqBuilder = RequestBuilder(r.fn, req2, c)]
    IN  /\ calls[c].pc = "idle"
        /\ req.kind \in {"completion", "chat"}
        /\ cache' = r.cache
        /\ UNCHANGED <<now, remoteLog, observed>>
        /\ CASE r.outcome = "hit" ->
                /\ calls' = [calls EXCEPT ![c] = HitCall(call, The(r.entry))]
                /\ UNCHANGED ai
             [] r.outcome = "go" ->
                /\ calls' = [calls EXCEPT ![c] = Submit(go, inst, now)]
                /\ ai' = [ai EXCEPT ![a] = inst]
             [] OTHER ->
                /\ calls' = [calls EXCEPT ![c] =
                        [call EXCEPT !.pc = "failed",
                                     !.error = IF r.outcome = "loop"
                                               THEN "redirection does not end"
                                               ELSE r.error]]
                /\ UNCHANGED ai

\* The same, made by a caller that awaits each call before making the next.
StartText(c, a, req, o) == InSequence(c) /\ CallText(c, a, req, o)

(***************************************************************************)
(* embed(req, options) up to the await of the dispatch.                    *)
(***************************************************************************)
StartEmbed(c, a, req, o) ==
    LET call == [Begin(c, a, req, o) EXCEPT !.req = {req}]
        inst == [ai[a] EXCEPT !.traceStepBuilder = setStep(o, c),
                              !.traceStepReqBuilder = RequestBuilder("embed", req, c)]
        missing == IF "generateEmbedReq" \notin ai[a].hooks
                   THEN "generateEmbedReq not implemented"
                   ELSE IF "generateEmbedResp" \notin ai[a].hooks
                   THEN "generateEmbedResp not implemented"
                   ELSE ""
    IN  /\ InSequence(c)
        /\ req.kind = "embed"
        /\ UNCHANGED <<cache, now, remoteLog, observed>>
        /\ IF missing # ""
           THEN /\ calls' = [calls EXCEPT ![c] =
                        [call EXCEPT !.pc = "failed", !.error = missing]]
                /\ UNCHANGED ai
           ELSE /\ calls' = [calls EXCEPT ![c] = Submit(call, inst, now)]
                /\ ai' = [ai EXCEPT ![a] = inst]

\* The rate limiter runs the thunk it was handed.
LimiterRuns(c) ==
    /\ calls[c].pc = "limiter"
    /\ calls' = [calls EXCEPT ![c] = RunThunk(calls[c], ai[calls[c].ai], now)]
    /\ UNCHANGED <<cache, now, ai, remoteLog, observed>>

\* The rate limiter rejects without running the thunk.
LimiterRejects(c) ==
    /\ calls[c].pc = "limiter"
    /\ calls' = [calls EXCEPT ![c] =
            [@ EXCEPT !.pc = "failed", !.error = "rate limiter rejected"]]
    /\ UNCHANGED <<cache, now, ai, remoteLog, observed>>

\* apiCall rejects: the error unwinds through the await.
\* Variant: a failed transport call is tried once more before it is given up.
TransportFailsRetriedOnce(c) ==
    /\ calls[c].pc = "dispatched"
    /\ calls' = [calls EXCEPT ![c] =
            IF Count(calls[c].events, "dispatch") < 2
            THEN [@ EXCEPT !.events = Append(@, "dispatch"),
                           !.descriptors = Append(@, Head(@))]
            ELSE [@ EXCEPT !.pc = "failed", !.error = "transport error"]]
    /\ UNCHANGED <<cache, now, ai, remoteLog, observed>>

TransportFails(c) ==
    /\ calls[c].pc = "dispatched"
    /\ calls' = [calls EXCEPT ![c] =
            [@ EXCEPT !.pc = "failed", !.error = "transport error"]]
    /\ UNCHANGED <<cache, now, ai, remoteLog, observed>>

(***************************************************************************)
(* apiCall resolves with a native response for a completion or chat call:  *)
(* the code after the await.                                               *)
(***************************************************************************)
StreamHook(fn) ==
    IF fn = "completion" THEN "generateCompletionStreamResp" ELSE "generateChatStreamResp"

RespHook(fn) ==
    IF fn = "completion" THEN "generateCompletionResp" ELSE "generateChatResp"

\* chat() reports a missing generateChatStreamResp as generateChatResp.
StreamHookError(fn) ==
    IF fn = "completion" THEN "generateCompletionStreamResp not implemented"
    ELSE "generateChatResp not implemented"

Fail(c, msg) ==
    /\ calls' = [calls EXCEPT ![c] = [@ EXCEPT !.pc = "failed", !.error = msg]]
    /\ UNCHANGED <<cache, ai, remoteLog, observed>>

TextResponds(c, kind, text, sinkOk) ==
    LET call == calls[c]
        hooks == ai[call.ai].hooks
        rv == [text |-> text, usage |-> 1]
    IN  /\ call.pc = "dispatched"
        /\ call.fn \in {"completion", "chat"}
        /\ kind \in ApiCallKinds(call)
        /\ UNCHANGED now
        /\ IF Truthy(call.stream)
           THEN IF StreamHook(call.fn) \notin hooks
                THEN Fail(c, StreamHookError(call.fn))
                ELSE IF kind # "stream"
                THEN Fail(c, "rv.pipeThrough is not a function")
                ELSE /\ calls' = [calls EXCEPT ![c] =
                            [call EXCEPT !.pc = "streaming",
                                         !.returned = {[kind |-> "stream"]}]]
                     /\ UNCHANGED <<cache, ai, remoteLog, observed>>
           ELSE IF RespHook(call.fn) \notin hooks
                THEN Fail(c, RespHook(call.fn) \o " not implemented")
                ELSE Settle(c, generateResp(rv), now - call.startTime, TRUE, <<>>, sinkOk)

\* apiCall resolves for an embed call.
EmbedResponds(c, text) ==
    LET call == calls[c]
        o == The(call.opts)
        res == generateEmbedResp([text |-> text, usage |-> 1])
        out == [res EXCEPT !.sessionId = o.sessionId]
    IN  /\ call.pc = "dispatched"
        /\ call.fn = "embed"
        /\ ai' = [ai EXCEPT ![call.ai].traceStepRespBuilder =
                [set |-> TRUE, modelUsage |-> res.modelUsage,
                 modelResponseTime |-> now - call.startTime, of |-> c]]
        /\ calls' = [calls EXCEPT ![c] =
                [call EXCEPT !.pc = "done", !.final = {out},
                             !.returned = {[kind |-> "value", value |-> out]}]]
        /\ UNCHANGED <<cache, now, remoteLog, observed>>

(***************************************************************************)
(* RespTransformStream: transform(delta) converts with wrappedRespFn,      *)
(* keeps the converted value and forwards it; flush() runs doneCb with the *)
(* kept values; a cancelled or aborted stream never reaches flush().       *)
(***************************************************************************)
\* const res = respFn(resp); res.sessionId = options?.sessionId; return res
\* Variant: the converted delta is forwarded without the session id.
wrappedRespFnUnstamped(o, delta) == generateStreamResp(delta)

wrappedRespFn(o, delta) == [generateStreamResp(delta) EXCEPT !.sessionId = o.sessionId]

Transform(call, delta) ==
    LET v == wrappedRespFn(The(call.opts), delta)
    IN  [call EXCEPT !.deltas = Append(@, delta),
                     !.values = Append(@, v),
                     !.forwarded = Append(@, v),
                     !.events = Append(@, "delta")]

StreamDelta(c, chunk) ==
    /\ calls[c].pc = "streaming"
    /\ Len(calls[c].deltas) < MaxDeltas
    /\ calls' = [calls EXCEPT ![c] = Transform(calls[c], [text |-> chunk, usage |-> 1])]
    /\ UNCHANGED <<cache, now, ai, remoteLog, observed>>

\* doneCb(values): mergeTextResponses, functions, setStepTextResponse, cache.set
StreamCloses(c, sinkOk) ==
    /\ calls[c].pc = "streaming"
    /\ UNCHANGED now
    /\ Settle(c, mergeTextResponses(calls[c].values), calls[c].startTime, FALSE,
              <<"doneCb">>, sinkOk)

\* Variant: cancelling flushes what was collected so far into the cache.
StreamAbortsFlushing(c) ==
    LET call == calls[c]
        o == The(call.opts)
    IN  /\ call.pc = "streaming"
        /\ calls' = [calls EXCEPT ![c] = [@ EXCEPT !.pc = "aborted"]]
        /\ cache' = IF Stores(o, call.hashKey) /\ call.values # <<>>
                    THEN CacheSet(cache, The(call.hashKey), mergeTextResponses(call.values),
                                  CacheMaxAge(o), now, c, call.ai)
                    ELSE cache
        /\ UNCHANGED <<now, ai, remoteLog, observed>>

StreamAborts(c) ==
    /\ calls[c].pc = "streaming"
    /\ calls' = [calls EXCEPT ![c] = [@ EXCEPT !.pc = "aborted"]]
    /\ UNCHANGED <<cache, now, ai, remoteLog, observed>>

(***************************************************************************)
(* Inputs.                                                                 *)
(***************************************************************************)
\* Prompt "p2" comes with function declarations and modelConfig.stream set.
Declares(p) == p = "p2"
ConfigStream(p) == IF p = "p2" THEN T ELSE Undef

CompletionRequests == {CompletionRequest(p, Declares(p), ConfigStream(p)) : p \in Prompts}

ChatRequests ==
    {ChatRequest(<<[role |-> "user", text |-> p]>>, Declares(p), ConfigStream(p)) :
        p \in Prompts}

TextRequests == CompletionRequests \cup ChatRequests

EmbedRequests == {EmbedRequest("p1")}

SessionId(c) == IF c = 1 THEN "s1" ELSE "s2"
TraceId(c) == IF c = 1 THEN "t1" ELSE "t2"

\* The options of call c: caching off, or on with the default or a given age.
CacheChoices == {<<FALSE, {}>>, <<TRUE, {}>>, <<TRUE, {1}>>}

OptionsOf(c, caching, streams, sids) ==
    {Options(ca[1], ca[2], st, sid, TraceId(c)) : ca \in caching, st \in streams, sid \in sids}

\* options.stream beside the request's own modelConfig.stream: given where
\* the request has none, and overriding it where the request has one.
StreamChoices(req) == IF req.modelConfig.stream = Undef THEN {Undef, T} ELSE {Undef, F}

EmbedOptions(c) == OptionsOf(c, {<<FALSE, {}>>}, {Undef}, {SessionId(c)})

TickSteps == {1, DefaultMaxAge}

(***************************************************************************)
(* Instances.                                                              *)
(***************************************************************************)
AllHooks == HookNames
ChatOnly == {"generateChatReq", "generateChatResp", "generateChatStreamResp"}
CompletionOnly ==
    {"generateCompletionReq", "generateCompletionResp", "generateCompletionStreamResp"}
HookSets ==
    {AllHooks, ChatOnly, CompletionOnly,
     {"generateChatReq"},
     {"generateCompletionReq", "generateCompletionResp"},
     {"generateEmbedReq"}}

StaticHeaders == ("Authorization" :> "static") @@ ("X-Static" :> "static")

Instance(hooks, rt, log, disableLog, url) ==
    [hooks |-> hooks, rt |-> rt, log |-> log, disableLog |-> disableLog,
     apiURL |-> url, headers |-> StaticHeaders,
     traceStepBuilder |-> NoBuilder,
     traceStepReqBuilder |-> NoBuilder,
     traceStepRespBuilder |-> NoBuilder]

\* The state after construction, given the instances.
InitWith(instances) ==
    /\ cache = << >>
    /\ now = 0
    /\ ai \in instances
    /\ calls = [c \in Calls |-> IdleCall]
    /\ remoteLog = << >>
    /\ observed = << >>

\* An instance that is given by ai1, beside a second instance with every hook.
Other == Instance(AllHooks, FALSE, FALSE, FALSE, "url2")

With(first) == [a \in AIs |-> IF a = "ai1" THEN first ELSE Other]

\* The native stream delivers "x", "call", "x", ...
NextChunk(call) == IF Len(call.deltas) % 2 = 0 THEN "x" ELSE "call"

\* What a completion or chat call does once it has dispatched.
TextSteps ==
    \/ \E c \in Calls : TransportFails(c)
    \/ \E c \in Calls, kind \in {"stream", "response"}, text \in Chunks, sinkOk \in BOOLEAN :
            TextResponds(c, kind, text, sinkOk)
    \/ \E c \in Calls : StreamDelta(c, NextChunk(calls[c]))
    \/ \E c \in Calls, sinkOk \in BOOLEAN : StreamCloses(c, sinkOk)
    \/ \E c \in Calls : StreamAborts(c)

\* What the rate limiter does with the thunk.
LimiterSteps ==
    \/ \E c \in Calls : LimiterRuns(c)
    \/ \E c \in Calls : LimiterRejects(c)

(***************************************************************************)
(* Spec: two calls in sequence on one instance.  The instance has every    *)
(* hook and a choice of rate limiter, observer and disableLog, or one of   *)
(* the smaller hook sets with a rate limiter and an observer.  The clock   *)
(* stands still.                                                           *)
(***************************************************************************)
Flags == {<<TRUE, TRUE, FALSE>>, <<FALSE, FALSE, FALSE>>, <<TRUE, TRUE, TRUE>>}

Instances ==
    {With(Instance(AllHooks, f[1], f[2], f[3], "url1")) : f \in Flags}
    \cup {With(Instance(hooks, TRUE, TRUE, FALSE, "url1")) : hooks \in HookSets \ {AllHooks}}

Init == InitWith(Instances)

Next ==
    \/ \E c \in Calls, req \in TextRequests :
            \E o \in OptionsOf(c, {<<FALSE, {}>>, <<TRUE, {}>>}, StreamChoices(req),
                                {SessionId(c)}) :
                StartText(c, "ai1", req, o)
    \/ \E c \in Calls, req \in EmbedRequests :
            \E o \in EmbedOptions(c) : StartEmbed(c, "ai1", req, o)
    \/ \E c \in Calls, text \in Chunks : EmbedResponds(c, text)
    \/ LimiterSteps
    \/ TextSteps

Spec == Init /\ [][Next]_vars

(***************************************************************************)
(* What the properties read off a state.                                   *)
(***************************************************************************)
Started(c) == calls[c].pc # "idle"
TextCall(c) == calls[c].api \in {"completion", "chat"}
Events(c, e) == Count(calls[c].events, e)
StepsBy(log, c) == Cardinality({i \in DOMAIN log : log[i].by = c})
WrittenBy(c) == {k \in DOMAIN cache : cache[k].by = c}
Streams(c) == calls[c].returned = {[kind |-> "stream"]}
Before(c, a, b) ==
    IndexOf(calls[c].events, a) = 0 \/ IndexOf(calls[c].events, b) = 0
    \/ IndexOf(calls[c].events, a) < IndexOf(calls[c].events, b)
ConfigError(c) ==
    calls[c].pc = "failed"
    /\ calls[c].error \in {h \o " not implemented" : h \in HookNames}

(***************************************************************************)
(* SpecCache: a cache-enabled call and then any call, on one instance with *)
(* a rate limiter and an observer, and time passing between the two.  The  *)
(* first call is made at time 0.                                           *)
(***************************************************************************)
CacheInstances ==
    {With(Instance(hooks, TRUE, TRUE, FALSE, "url1")) :
        hooks \in {AllHooks, ChatOnly}}

CacheRequests ==
    {CompletionRequest("p1", FALSE, Undef),
     ChatRequest(<<[role |-> "user", text |-> "p1"]>>, FALSE, Undef)}

Quiet == Terminal(calls[1]) /\ calls[2].pc = "idle"

CachingOf(c) == IF c = 1 THEN CacheChoices \ {<<FALSE, {}>>} ELSE CacheChoices

InitCache == InitWith(CacheInstances)

NextCache ==
    \/ \E d \in TickSteps : Quiet /\ Tick(d)
    \/ \E c \in Calls, req \in CacheRequests :
            \E o \in OptionsOf(c, CachingOf(c), {Undef, T}, {SessionId(c)}) :
                StartText(c, "ai1", req, o)
    \/ LimiterSteps
    \/ TextSteps

SpecCache == InitCache /\ [][NextCache]_vars

(***************************************************************************)
(* SpecShared: two calls in sequence, each on either of two instances that *)
(* share the cache: ai1 has the hooks of one capability, ai2 has them all. *)
(***************************************************************************)
SharedInstances ==
    {With(Instance(hooks, FALSE, TRUE, FALSE, "url1")) : hooks \in {ChatOnly, CompletionOnly}}

InitShared == InitWith(SharedInstances)

NextShared ==
    \/ \E c \in Calls, a \in AIs, req \in CacheRequests :
            \E o \in OptionsOf(c, {<<FALSE, {}>>, <<TRUE, {}>>}, {Undef, T}, {SessionId(c)}) :
                StartText(c, a, req, o)
    \/ TextSteps

SpecShared == InitShared /\ [][NextShared]_vars

(***************************************************************************)
(* SpecOverlap: two calls on one instance with a rate limiter and an       *)
(* observer, neither caller waiting for the other: a call can begin while  *)
(* the other is queued in the limiter, dispatched or streaming.            *)
(***************************************************************************)
NextOverlap ==
    \/ \E c \in Calls, req \in CacheRequests :
            \E o \in OptionsOf(c, {<<FALSE, {}>>, <<TRUE, {}>>}, {Undef, T}, {SessionId(c)}) :
                CallText(c, "ai1", req, o)
    \/ LimiterSteps
    \/ TextSteps

SpecOverlap == InitCache /\ [][NextOverlap]_vars

(***************************************************************************)
(* SpecTimed: two calls in sequence on one instance, the clock advancing   *)
(* by a second at any moment: before a call, while it is queued in the     *)
(* limiter, while it is dispatched and while it streams.                   *)
(***************************************************************************)
TimedInstances == {With(Instance(AllHooks, rt, TRUE, FALSE, "url1")) : rt \in BOOLEAN}

InitTimed == InitWith(TimedInstances)

NextTimed ==
    \/ Tick(1)
    \/ \E c \in Calls, req \in CacheRequests :
            \E o \in OptionsOf(c, {<<FALSE, {}>>}, {Undef, T}, {SessionId(c)}) :
                StartText(c, "ai1", req, o)
    \/ LimiterSteps
    \/ TextSteps

SpecTimed == InitTimed /\ [][NextTimed]_vars

(***************************************************************************)
(* C3: a completion or chat call that produces a final result without a    *)
(* cache hit, on an instance whose logging is not disabled, has delivered  *)
(* exactly one trace step to the remote sink (and one to the observer, if  *)
(* there is one), however many deltas it streamed and whether or not it    *)
(* was redirected to the sibling capability.                               *)
(***************************************************************************)
C3_OneTraceStepPerCall ==
    \A c \in Calls :
        (calls[c].pc = "done" /\ TextCall(c) /\ calls[c].hit = {}
         /\ ~ai[calls[c].ai].disableLog)
        => /\ StepsBy(remoteLog, c) = 1
           /\ Events(c, "trace") = 1
           /\ StepsBy(observed, c) = (IF ai[calls[c].ai].log THEN 1 ELSE 0)

C3_Witness ==
    \E c \in Calls :
        /\ calls[c].pc = "done" /\ calls[c].api = "completion" /\ calls[c].redirects = 1
        /\ Streams(c) /\ Len(calls[c].deltas) = 2
        /\ StepsBy(remoteLog, c) = 1

(***************************************************************************)
(* C4: a completion, chat or embed call that failed because the transport  *)
(* or the rate limiter rejected ends with that error, has invoked the      *)
(* transport at most once (never, when the limiter rejected), has          *)
(* delivered no trace step to the remote sink or the observer and has      *)
(* written no cache entry.                                                 *)
(***************************************************************************)
C4_FailedCallHasNoEffects ==
    \A c \in Calls :
        (calls[c].pc = "failed"
         /\ calls[c].error \in {"transport error", "rate limiter rejected"})
        => /\ Events(c, "dispatch") = (IF calls[c].error = "transport error" THEN 1 ELSE 0)
           /\ Len(calls[c].descriptors) = Events(c, "dispatch")
           /\ StepsBy(remoteLog, c) = 0
           /\ StepsBy(observed, c) = 0
           /\ Events(c, "trace") + Events(c, "observe") + Events(c, "cacheSet") = 0
           /\ WrittenBy(c) = {}
           /\ calls[c].final = {} /\ calls[c].returned = {}

C4_Witness ==
    /\ calls[1].pc = "done" /\ calls[1].api = "chat" /\ WrittenBy(1) # {}
    /\ calls[2].pc = "failed" /\ calls[2].error = "transport error"
    /\ calls[2].api = "chat" /\ The(calls[2].opts).cache
    /\ ai["ai1"].log /\ ai["ai1"].rt

(***************************************************************************)
(* C5: a completion or chat call that fails because a hook is missing has  *)
(* never invoked the transport.                                            *)
(***************************************************************************)
C5_ConfigErrorBeforeDispatch ==
    \A c \in Calls : (TextCall(c) /\ ConfigError(c)) => Events(c, "dispatch") = 0

(***************************************************************************)
(* C8: a streaming completion or chat call runs doneCb, the function       *)
(* invocation, the trace delivery and the cache write at most once each,   *)
(* in that order and after the last delta; while the stream is open none   *)
(* of them has happened; once it has closed, the trace step and the cache  *)
(* entry hold the aggregate of the deltas.                                 *)
(***************************************************************************)
C8_AggregateOnceAfterClose ==
    \A c \in Calls :
        Streams(c) =>
            /\ \A e \in {"doneCb", "func", "trace", "observe", "cacheSet"} : Events(c, e) <= 1
            /\ calls[c].pc \in {"streaming", "aborted"} =>
                    /\ Events(c, "doneCb") + Events(c, "func") + Events(c, "trace")
                       + Events(c, "cacheSet") = 0
                    /\ StepsBy(remoteLog, c) = 0
                    /\ WrittenBy(c) = {}
            /\ calls[c].pc = "done" =>
                    /\ Events(c, "doneCb") = 1
                    /\ Events(c, "func") = (IF The(calls[c].req).functions THEN 1 ELSE 0)
                    /\ Events(c, "trace") = (IF ai[calls[c].ai].disableLog THEN 0 ELSE 1)
                    /\ Events(c, "cacheSet") = (IF The(calls[c].opts).cache THEN 1 ELSE 0)
                    /\ calls[c].events[Len(calls[c].deltas)
                                       + IndexOf(calls[c].events, "dispatch") + 1] = "doneCb"
                    /\ Before(c, "doneCb", "func") /\ Before(c, "func", "trace")
                    /\ Before(c, "func", "cacheSet") /\ Before(c, "trace", "cacheSet")
                    /\ \A i \in DOMAIN remoteLog :
                            remoteLog[i].by = c =>
                                remoteLog[i].step.response.results = The(calls[c].final).results
                    /\ \A k \in WrittenBy(c) : cache[k].value = The(calls[c].final)

C8_Witness ==
    \E c \in Calls :
        /\ Streams(c) /\ calls[c].pc = "done" /\ Len(calls[c].deltas) = 2
        /\ Events(c, "func") = 1 /\ Events(c, "trace") = 1 /\ Events(c, "cacheSet") = 1
        /\ The(calls[c].final).functions # <<>>

(***************************************************************************)
(* C9: a streaming call whose stream was cancelled or aborted before it    *)
(* closed has run no doneCb, delivered no trace step and written no cache  *)
(* entry, and a later cache-enabled call with the same request finds no    *)
(* entry and dispatches.                                                   *)
(***************************************************************************)
C9_AbortLeavesNothing ==
    \A c \in Calls :
        calls[c].pc = "aborted" =>
            /\ Events(c, "doneCb") = 0
            /\ StepsBy(remoteLog, c) = 0 /\ StepsBy(observed, c) = 0
            /\ WrittenBy(c) = {}
            /\ calls[c].final = {}
            /\ \A d \in Calls :
                (c < d /\ Started(d) /\ calls[d].orig = calls[c].orig /\ The(calls[d].opts).cache)
                => /\ calls[d].hit = {}
                   /\ calls[d].pc \in {"dispatched", "streaming", "done", "aborted"}
                        => Events(d, "dispatch") = 1

C9_Witness ==
    /\ calls[1].pc = "aborted" /\ Len(calls[1].deltas) = 1 /\ The(calls[1].opts).cache
    /\ calls[2].orig = calls[1].orig /\ The(calls[2].opts).cache
    /\ calls[2].pc = "done" /\ Events(2, "dispatch") = 1

(***************************************************************************)
(* C10: of the N native deltas a streaming call was fed, exactly N results *)
(* were forwarded, the i-th being the i-th delta converted by the stream   *)
(* response hook and stamped with the session id of the call, and the      *)
(* values handed to doneCb are these N results in the same order.          *)
(***************************************************************************)
C10_DeltasForwardedInOrder ==
    \A c \in Calls :
        Streams(c) =>
            /\ Len(calls[c].forwarded) = Len(calls[c].deltas)
            /\ \A i \in DOMAIN calls[c].deltas :
                    /\ calls[c].forwarded[i].results[1].text = <<calls[c].deltas[i].text>>
                    /\ calls[c].forwarded[i].sessionId = The(calls[c].opts).sessionId
            /\ calls[c].values = calls[c].forwarded
            /\ calls[c].pc = "done" =>
                    The(calls[c].final).results[1].text
                        = [i \in DOMAIN calls[c].deltas |-> calls[c].deltas[i].text]

C10_Witness ==
    \E c \in Calls :
        /\ Streams(c) /\ calls[c].pc = "done" /\ Len(calls[c].deltas) = 2
        /\ calls[c].deltas[1].text # calls[c].deltas[2].text
        /\ The(calls[c].opts).sessionId = "s1"

(***************************************************************************)
(* The time to live the code gives an entry written with options o.        *)
(***************************************************************************)
ExpectedTTL(o) == IF o.cacheMaxAgeSeconds = {} THEN 3600 ELSE The(o.cacheMaxAgeSeconds)

Replays(c, d) ==
    /\ c < d /\ TextCall(c) /\ calls[c].pc = "done" /\ calls[c].hit = {}
    /\ The(calls[c].opts).cache
    /\ Started(d) /\ calls[d].ai = calls[c].ai
    /\ calls[d].orig = calls[c].orig /\ The(calls[d].opts).cache

Elapsed(c, d) == calls[d].startedAt - calls[c].endedAt

(***************************************************************************)
(* C1: when a cache-enabled completion or chat call has produced its       *)
(* result and the same request is made again, cache-enabled, before the    *)
(* time to live has elapsed, the second call ends at once with the first   *)
(* call's final result and without a dispatch: the two calls together      *)
(* dispatched once.  This covers calls redirected to the sibling           *)
(* capability.                                                             *)
(***************************************************************************)
C1_ReplayIsServedFromCache ==
    \A c, d \in Calls :
        (Replays(c, d) /\ Elapsed(c, d) < ExpectedTTL(The(calls[c].opts)))
        => /\ calls[d].pc = "done" /\ calls[d].hit # {}
           /\ calls[d].final = calls[c].final
           /\ calls[d].returned = {[kind |-> "value", value |-> The(calls[c].final)]}
           /\ calls[d].descriptors = <<>>
           /\ Events(c, "dispatch") + Events(d, "dispatch") = 1

C1_Witness ==
    /\ Replays(1, 2) /\ Elapsed(1, 2) = 1
    /\ calls[1].api = "completion" /\ calls[1].redirects = 1
    /\ calls[2].hit # {} /\ Events(1, "dispatch") = 1

(***************************************************************************)
(* C2: the step in which a completion or chat call finds its entry in the  *)
(* cache returns the stored value as it is and does nothing else: the call *)
(* has no event (no rate limiter, dispatch, function, trace or cache       *)
(* write), the sinks and the instances with their trace builders are       *)
(* unchanged, and no cache entry is new or changed.                        *)
(***************************************************************************)
C2_HitDoesNothingElse ==
    [][\A c \in Calls :
        (calls[c].pc = "idle" /\ calls'[c].hit # {})
        => /\ \E k \in DOMAIN cache :
                /\ cache[k] = The(calls'[c].hit)
                /\ calls'[c].returned = {[kind |-> "value", value |-> cache[k].value]}
           /\ calls'[c].pc = "done"
           /\ calls'[c].events = <<>> /\ calls'[c].descriptors = <<>>
           /\ ai' = ai /\ remoteLog' = remoteLog /\ observed' = observed
           /\ \A k \in DOMAIN cache' : k \in DOMAIN cache /\ cache'[k] = cache[k]]_vars

C2_Witness ==
    \E c \in Calls :
        /\ calls[c].hit # {} /\ calls[c].redirects = 1
        /\ ai[calls[c].ai].rt /\ ai[calls[c].ai].log
        /\ traceExists(ai[calls[c].ai])
        /\ ai[calls[c].ai].traceStepBuilder.of # c

(***************************************************************************)
(* C7: a call is served from the cache only while the entry's age does not *)
(* exceed the time to live its writer asked for (3600 when it gave none);  *)
(* the same cache-enabled request made after more than that time misses    *)
(* and dispatches, and made before that time does not dispatch.            *)
(***************************************************************************)
C7_EntryExpiresAfterMaxAge ==
    /\ \A d \in Calls :
        calls[d].hit # {} =>
            calls[d].startedAt - The(calls[d].hit).writtenAt
                <= ExpectedTTL(The(calls[The(calls[d].hit).by].opts))
    /\ \A c, d \in Calls :
        Replays(c, d) =>
            /\ Elapsed(c, d) > ExpectedTTL(The(calls[c].opts)) =>
                    /\ calls[d].hit = {}
                    /\ calls[d].pc \in {"dispatched", "streaming", "done", "aborted"}
                            => Events(d, "dispatch") = 1
            /\ Elapsed(c, d) < ExpectedTTL(The(calls[c].opts)) =>
                    calls[d].hit # {} /\ Events(d, "dispatch") = 0

C7_Witness ==
    /\ Replays(1, 2)
    /\ The(calls[1].opts).cacheMaxAgeSeconds = {}
    /\ Elapsed(1, 2) = 3601
    /\ calls[2].hit = {} /\ calls[2].pc = "done" /\ Events(2, "dispatch") = 1

(***************************************************************************)
(* C6: a call of the capability whose request hook is missing, on an       *)
(* instance that has the sibling's request hook, is redirected exactly     *)
(* once and goes on as the sibling's call with the converted request: it   *)
(* is served by the sibling's hooks and reads and writes the cache under   *)
(* the converted request's key only.                                       *)
(***************************************************************************)
RedirectedCall(c) ==
    /\ Started(c) /\ TextCall(c)
    /\ \/ calls[c].api = "completion" /\ CompletionRedirects(ai[calls[c].ai].hooks)
       \/ calls[c].api = "chat" /\ ChatRedirects(ai[calls[c].ai].hooks)

Converted(req) ==
    IF req.kind = "completion" THEN convertToChatRequest(req)
    ELSE convertToCompletionRequest(req)

C6_RedirectedOnceLikeDirectCall ==
    \A c \in Calls :
        RedirectedCall(c) =>
            /\ calls[c].redirects = 1
            /\ calls[c].fn = Converted(The(calls[c].orig)).kind
            /\ calls[c].hit # {} =>
                    /\ hashObject(Converted(The(calls[c].orig))) \in DOMAIN cache
                    /\ The(calls[c].hit).value
                        = cache[hashObject(Converted(The(calls[c].orig)))].value
            /\ \A k \in WrittenBy(c) : k = hashObject(Converted(The(calls[c].orig)))

(***************************************************************************)
(* C11: a completion or chat call whose trace step the remote sink         *)
(* rejected still ends with its result, and when it is cache-enabled its   *)
(* result has been written to the cache.                                   *)
(***************************************************************************)
C11_TraceFailureDoesNotFailCall ==
    \A c \in Calls :
        (TextCall(c) /\ Events(c, "traceRejected") > 0)
        => /\ calls[c].pc = "done"
           /\ calls[c].final # {}
           /\ The(calls[c].opts).cache => Events(c, "cacheSet") = 1

(***************************************************************************)
(* C12: every trace step that reached the remote sink or the observer      *)
(* describes one call: its trace id, session id and request snapshot are   *)
(* those of the call whose response snapshot it holds, also when two calls *)
(* on the instance overlap.                                                *)
(***************************************************************************)
StepOfOneCall(entry) ==
    /\ entry.step.stepOf = entry.by
    /\ entry.step.request.of = entry.by
    /\ entry.step.response.of = entry.by
    /\ entry.step.traceId = The(calls[entry.by].opts).traceId
    /\ entry.step.sessionId = The(calls[entry.by].opts).sessionId

C12_TraceStepDescribesOneCall ==
    /\ \A i \in DOMAIN remoteLog : StepOfOneCall(remoteLog[i])
    /\ \A i \in DOMAIN observed : StepOfOneCall(observed[i])

(***************************************************************************)
(* C13: an embed call that has completed, on an instance whose logging is  *)
(* not disabled, has delivered one trace step to the remote sink and one   *)
(* to the observer if there is one; it was not served from the cache and   *)
(* has written no cache entry.                                             *)
(***************************************************************************)
C13_EmbedDeliversOneTraceStep ==
    \A c \in Calls :
        (calls[c].api = "embed" /\ calls[c].pc = "done")
        => /\ ~ai[calls[c].ai].disableLog =>
                /\ StepsBy(remoteLog, c) = 1
                /\ StepsBy(observed, c) = (IF ai[calls[c].ai].log THEN 1 ELSE 0)
           /\ calls[c].hit = {} /\ WrittenBy(c) = {} /\ Events(c, "cacheSet") = 0

(***************************************************************************)
(* C14: a completion or chat call on an instance with disableLog delivers  *)
(* no trace step to the remote sink or the observer and never fails on the *)
(* trace; when it has finished, streaming or not, its result is the        *)
(* converted (or merged) response with the functions applied, and the      *)
(* cache holds that result exactly when the call is cache-enabled.         *)
(***************************************************************************)
C14_DisabledLoggingSkipsTraceOnly ==
    \A c \in Calls :
        (Started(c) /\ TextCall(c) /\ ai[calls[c].ai].disableLog)
        => /\ StepsBy(remoteLog, c) = 0 /\ StepsBy(observed, c) = 0
           /\ Events(c, "trace") + Events(c, "observe") + Events(c, "traceRejected") = 0
           /\ calls[c].error # "trace delivery failed"
           /\ (calls[c].pc = "done" /\ calls[c].hit = {}) =>
                /\ calls[c].final # {}
                /\ Streams(c) =>
                        /\ The(calls[c].final).results
                            = mergeTextResponses(calls[c].values).results
                        /\ Events(c, "doneCb") = 1
                /\ ~Streams(c) =>
                        /\ calls[c].returned = {[kind |-> "value", value |-> The(calls[c].final)]}
                        /\ The(calls[c].final).sessionId = The(calls[c].opts).sessionId
                /\ Events(c, "func") = (IF The(calls[c].req).functions THEN 1 ELSE 0)
                /\ Events(c, "cacheSet") = (IF The(calls[c].opts).cache THEN 1 ELSE 0)
                /\ The(calls[c].opts).cache =>
                        /\ The(calls[c].hashKey) \in DOMAIN cache
                        /\ cache[The(calls[c].hashKey)].by = c
                            => cache[The(calls[c].hashKey)].value = The(calls[c].final)
                /\ ~The(calls[c].opts).cache => WrittenBy(c) = {}

C14_Witness ==
    \E c \in Calls :
        /\ calls[c].pc = "done" /\ Streams(c) /\ Len(calls[c].deltas) = 2
        /\ ai[calls[c].ai].disableLog /\ ai[calls[c].ai].log
        /\ The(calls[c].opts).cache /\ WrittenBy(c) # {}
        /\ The(calls[c].final).functions # <<>>

(***************************************************************************)
(* C15: when two cache-enabled calls with the same cache key both missed   *)
(* (each looked up before the other stored) and both have finished, each   *)
(* has dispatched once and the cache holds the result of the one that      *)
(* finished last; at every moment an entry of the cache is the complete    *)
(* final result of the call that wrote it, and a call served from the      *)
(* cache returns such a result.                                            *)
(***************************************************************************)
Racing(c, d) ==
    /\ c # d /\ TextCall(c) /\ TextCall(d)
    /\ The(calls[c].opts).cache /\ The(calls[d].opts).cache
    /\ calls[c].hashKey = calls[d].hashKey
    /\ calls[c].hit = {} /\ calls[d].hit = {}
    /\ calls[c].pc = "done" /\ calls[d].pc = "done"

\* The call whose tail ran last, read off the order of the remote sink.
LastSettled == remoteLog[Len(remoteLog)].by

C15_RacingCallsLastSetWins ==
    /\ \A c, d \in Calls :
        Racing(c, d) =>
            /\ Events(c, "dispatch") = 1 /\ Events(d, "dispatch") = 1
            /\ The(calls[c].hashKey) \in DOMAIN cache
            /\ cache[The(calls[c].hashKey)].value = The(calls[LastSettled].final)
    /\ \A k \in DOMAIN cache :
            /\ calls[cache[k].by].final = {cache[k].value}
            /\ k = The(calls[cache[k].by].hashKey)
    /\ \A c \in Calls :
        calls[c].hit # {} =>
            \E d \in Calls \ {c} :
                /\ calls[d].final = {The(calls[c].hit).value}
                /\ calls[c].returned = {[kind |-> "value", value |-> The(calls[d].final)]}

C15_Witness ==
    /\ Racing(1, 2) /\ calls[1].final # calls[2].final
    /\ Len(remoteLog) = 2 /\ remoteLog[1].by = 2 /\ LastSettled = 1
    /\ cache[The(calls[1].hashKey)].by = 1

(***************************************************************************)
(* C16: on an instance with a rate limiter, every dispatch of a            *)
(* completion, chat or embed call directly follows the limiter taking the  *)
(* thunk of that call, the thunk dispatches once, a call that is still     *)
(* queued in the limiter has not dispatched, and a call the limiter        *)
(* rejected has failed with the rejection and never dispatched.            *)
(***************************************************************************)
C16_DispatchOnlyInsideLimiter ==
    \A c \in Calls :
        (Started(c) /\ ai[calls[c].ai].rt)
        => /\ \A i \in DOMAIN calls[c].events :
                calls[c].events[i] = "dispatch" => (i > 1 /\ calls[c].events[i - 1] = "limiter")
           /\ Events(c, "dispatch") <= 1
           /\ Len(calls[c].descriptors) = Events(c, "dispatch")
           /\ calls[c].pc = "limiter" => Events(c, "dispatch") = 0
           /\ calls[c].pc \in {"dispatched", "streaming", "aborted"} => Events(c, "dispatch") = 1
           /\ (calls[c].pc = "done" /\ calls[c].hit = {}) => Events(c, "dispatch") = 1
           /\ (Events(c, "limiter") = 1 /\ Events(c, "dispatch") = 0 /\ calls[c].pc # "limiter")
                => /\ calls[c].pc = "failed" /\ calls[c].error = "rate limiter rejected"
                   /\ calls[c].returned = {}

C16_Witness ==
    /\ ai["ai1"].rt
    /\ calls[1].api = "embed" /\ calls[1].pc = "done" /\ Events(1, "dispatch") = 1
    /\ calls[2].api = "chat" /\ calls[2].error = "rate limiter rejected"

(***************************************************************************)
(* C17: the response time in every delivered trace step is the time from   *)
(* the start time the thunk captured to the moment the final result was    *)
(* known, for non-streaming and for streaming calls.                       *)
(***************************************************************************)
C17_ResponseTimeIsElapsedTime ==
    \A i \in DOMAIN remoteLog :
        remoteLog[i].step.response.modelResponseTime
            = calls[remoteLog[i].by].endedAt - calls[remoteLog[i].by].startTime

(***************************************************************************)
(* C18: the headers of every descriptor handed to the transport are the    *)
(* per-call headers of the request hook together with the static headers   *)
(* of the instance, and a key that both have carries the static value.     *)
(***************************************************************************)
C18_StaticHeadersWin ==
    \A c \in Calls : \A i \in DOMAIN calls[c].descriptors :
        LET sent == calls[c].descriptors[i].headers
            static == ai[calls[c].ai].headers
            percall == PerCallHeaders(calls[c].fn)
        IN  /\ DOMAIN sent = DOMAIN static \cup DOMAIN percall
            /\ \A k \in DOMAIN static : sent[k] = static[k]
            /\ \A k \in DOMAIN percall \ DOMAIN static : sent[k] = percall[k]

C18_Witness ==
    /\ calls[1].api = "embed" /\ calls[1].descriptors # <<>>
    /\ calls[2].api = "chat" /\ calls[2].descriptors # <<>>
    /\ "Authorization" \in DOMAIN StaticHeaders \cap DOMAIN PerCallHeaders("chat")
    /\ StaticHeaders["Authorization"] # PerCallHeaders("chat")["Authorization"]
    /\ calls[2].descriptors[1].headers["X-Api"] = "chat"

(***************************************************************************)
(* C19: every result a completion or chat call returned carries the        *)
(* session id of that call's options, a result served from the cache       *)
(* included.                                                               *)
(***************************************************************************)
C19_ResultCarriesCallersSession ==
    \A c \in Calls :
        TextCall(c) =>
            /\ \A r \in calls[c].returned :
                    r.kind = "value" => r.value.sessionId = The(calls[c].opts).sessionId
            /\ \A i \in DOMAIN calls[c].forwarded :
                    calls[c].forwarded[i].sessionId = The(calls[c].opts).sessionId

(***************************************************************************)
(* C20: when no call is in flight and traceExists() is true on an          *)
(* instance, the request snapshot and the response snapshot of the         *)
(* instance belong to the same call.                                       *)
(***************************************************************************)
C20_SnapshotsOfOneCall ==
    \A a \in AIs :
        ((\A c \in Calls : calls[c].pc = "idle" \/ Terminal(calls[c])) /\ traceExists(ai[a]))
        => /\ ai[a].traceStepReqBuilder.of = ai[a].traceStepRespBuilder.of
           /\ ai[a].traceStepBuilder.of = ai[a].traceStepRespBuilder.of

(***************************************************************************)
(* C21: a value a completion or chat call was served from the cache was    *)
(* stored by a call on the same instance.                                  *)
(***************************************************************************)
C21_HitComesFromSameInstance ==
    \A c \in Calls :
        calls[c].hit # {} =>
            /\ The(calls[c].hit).inst = calls[c].ai
            /\ calls[The(calls[c].hit).by].ai = calls[c].ai

(***************************************************************************)
(* C22: every descriptor a completion or chat call handed to the transport *)
(* carries the resolved stream setting of the call, so that a streaming    *)
(* call's descriptor asks for a stream, on the completion path as on the   *)
(* chat path.                                                              *)
(***************************************************************************)
C22_DescriptorCarriesStreamFlag ==
    \A c \in Calls :
        TextCall(c) =>
            \A i \in DOMAIN calls[c].descriptors :
                /\ DOMAIN calls[c].descriptors[i] = {"name", "url", "headers", "stream"}
                /\ DescriptorStream(calls[c].descriptors[i]) = calls[c].stream

====
